---- MODULE Spec2Model ----
(***************************************************************************)
(* The POST /analyze handler of app.py (analyze_resume) as a state         *)
(* machine.  Every request is one process; its position in the handler is  *)
(* pc[r].  The two collaborators (Cloudinary, Gemini) and the filesystem   *)
(* are the environment: each call either returns or raises.                *)
(*                                                                         *)
(* Strings that the code inspects character by character (the text handed  *)
(* to json.loads) are tuples of one-character strings.                     *)
(***************************************************************************)
EXTENDS Integers, Sequences, FiniteSets, TLC

\* ------------------------------------------------------------------ bounds
NRequests == 2
NPaths == 2

Requests == 1..NRequests
Paths == 1..NPaths

\* ------------------------------------------------------- program constants
MAX_FILE_SIZE == 10 * 1024 * 1024

allowedLoose ==
  { "application/pdf",
    "application/msword",
    "application/vnd.openxmlformats-officedocument.wordprocessingml.document",
    "text/plain" }

allowed ==
  { "application/pdf",
    "application/msword",
    "application/vnd.openxmlformats-officedocument.wordprocessingml.document" }

\* ------------------------------------------------------------- JSON values
\* A JSON value (what json.loads returns) is a record of one shape, so that
\* any two values can be compared:
\*   kind  : "object" | "array" | "string" | "number" | "true" | "false"
\*           | "null" | "pair" | "none"
\*   lit   : the characters of a string, a number or a pair's key
\*   items : the elements of an array, the pairs of an object, or the one
\*           value of a pair
JVal(k, l, it) == [kind |-> k, lit |-> l, items |-> it]

NoValue == JVal("none", <<>>, <<>>)

JString(chars) == JVal("string", chars, <<>>)

JPair(key, v) == JVal("pair", key, <<v>>)

JObject(pairs) == JVal("object", <<>>, pairs)

\* {"raw": text}, the dict built at line 183.
RawFeedback(t) == JObject(<< JPair(<<"r", "a", "w">>, JString(t)) >>)

\* ------------------------------------------------------------- json.loads
Whitespace == {" "}

Digits == {"0", "1", "2", "3", "4", "5", "6", "7", "8", "9"}

Quote == "\""

ParseFail == [ok |-> FALSE, next |-> 0, val |-> NoValue]

ParseOk(n, v) == [ok |-> TRUE, next |-> n, val |-> v]

RECURSIVE SkipWs(_, _)
SkipWs(s, i) ==
  IF i <= Len(s) /\ s[i] \in Whitespace THEN SkipWs(s, i + 1) ELSE i

StartsWith(s, i, w) ==
  /\ i + Len(w) - 1 <= Len(s)
  /\ SubSeq(s, i, i + Len(w) - 1) = w

\* Position of the closing quote of a string whose first character is at i,
\* 0 when the string is not terminated.
RECURSIVE StringEnd(_, _)
StringEnd(s, i) ==
  IF i > Len(s) THEN 0
  ELSE IF s[i] = Quote THEN i
  ELSE StringEnd(s, i + 1)

ParseString(s, i) ==
  LET e == StringEnd(s, i + 1)
  IN IF e = 0 THEN ParseFail
     ELSE ParseOk(e + 1, JString(SubSeq(s, i + 1, e - 1)))

\* First position at or after i that holds no digit.
RECURSIVE DigitsEnd(_, _)
DigitsEnd(s, i) ==
  IF i <= Len(s) /\ s[i] \in Digits THEN DigitsEnd(s, i + 1) ELSE i

\* An integer: -?(0|[1-9][0-9]*).  A leading zero ends the number, and what
\* follows is then extra data for the caller.  int("-0") is 0.
ParseNumber(s, i) ==
  LET d == IF s[i] = "-" THEN i + 1 ELSE i
      e == IF d <= Len(s) /\ s[d] = "0" THEN d + 1 ELSE DigitsEnd(s, d)
      lit == SubSeq(s, i, e - 1)
  IN IF e = d THEN ParseFail
     ELSE ParseOk(e, JVal("number", IF lit = <<"-", "0">> THEN <<"0">> ELSE lit, <<>>))

\* dict semantics: a repeated key keeps its first position and takes the
\* last value.
RECURSIVE PutPair(_, _, _)
PutPair(pairs, key, v) ==
  IF pairs = <<>> THEN << JPair(key, v) >>
  ELSE IF Head(pairs).lit = key THEN << JPair(key, v) >> \o Tail(pairs)
  ELSE << Head(pairs) >> \o PutPair(Tail(pairs), key, v)

RECURSIVE ParseValue(_, _)
RECURSIVE ParseElements(_, _, _)
RECURSIVE ParseMembers(_, _, _)

\* The elements of an array after "[" or ",": i is at the next element.
ParseElements(s, i, acc) ==
  LET v == ParseValue(s, i)
      j == SkipWs(s, v.next)
  IN IF ~v.ok \/ j > Len(s) THEN ParseFail
     ELSE IF s[j] = "]" THEN ParseOk(j + 1, JVal("array", <<>>, Append(acc, v.val)))
     ELSE IF s[j] = "," THEN ParseElements(s, SkipWs(s, j + 1), Append(acc, v.val))
     ELSE ParseFail

\* The members of an object after "{" or ",": i is at the next key.
ParseMembers(s, i, acc) ==
  IF i > Len(s) \/ s[i] # Quote THEN ParseFail
  ELSE
    LET k == ParseString(s, i)
        c == IF k.ok THEN SkipWs(s, k.next) ELSE 0
    IN IF ~k.ok \/ c > Len(s) \/ s[c] # ":" THEN ParseFail
       ELSE
         LET v == ParseValue(s, SkipWs(s, c + 1))
             j == SkipWs(s, v.next)
             put == PutPair(acc, k.val.lit, v.val)
         IN IF ~v.ok \/ j > Len(s) THEN ParseFail
            ELSE IF s[j] = "}" THEN ParseOk(j + 1, JObject(put))
            ELSE IF s[j] = "," THEN ParseMembers(s, SkipWs(s, j + 1), put)
            ELSE ParseFail

\* One JSON value starting at i (no leading whitespace).
ParseValue(s, i) ==
  IF i > Len(s) THEN ParseFail
  ELSE IF s[i] = Quote THEN ParseString(s, i)
  ELSE IF s[i] = "{" THEN
    LET j == SkipWs(s, i + 1)
    IN IF j <= Len(s) /\ s[j] = "}" THEN ParseOk(j + 1, JObject(<<>>))
       ELSE ParseMembers(s, j, <<>>)
  ELSE IF s[i] = "[" THEN
    LET j == SkipWs(s, i + 1)
    IN IF j <= Len(s) /\ s[j] = "]" THEN ParseOk(j + 1, JVal("array", <<>>, <<>>))
       ELSE ParseElements(s, j, <<>>)
  ELSE IF StartsWith(s, i, <<"n", "u", "l", "l">>) THEN
    ParseOk(i + 4, JVal("null", <<>>, <<>>))
  ELSE IF StartsWith(s, i, <<"t", "r", "u", "e">>) THEN
    ParseOk(i + 4, JVal("true", <<>>, <<>>))
  ELSE IF StartsWith(s, i, <<"f", "a", "l", "s", "e">>) THEN
    ParseOk(i + 5, JVal("false", <<>>, <<>>))
  ELSE IF s[i] = "-" \/ s[i] \in Digits THEN ParseNumber(s, i)
  ELSE ParseFail

\* json.loads(text): one value between optional whitespace, nothing after
\* it; ok = FALSE stands for the JSONDecodeError.
json_loads(t) ==
  LET v == ParseValue(t, SkipWs(t, 1))
  IN IF v.ok /\ SkipWs(t, v.next) = Len(t) + 1 THEN v ELSE ParseFail

\* Feedback(text): lines 179-183, json.loads(text) or, when it raises, the
\* dict {"raw": text}.
FeedbackUnparsed(t) == RawFeedback(t)

FeedbackDropsText(t) ==
  IF json_loads(t).ok THEN json_loads(t).val ELSE RawFeedback(<<>>)

FeedbackNullOnError(t) ==
  IF json_loads(t).ok THEN json_loads(t).val ELSE JVal("null", <<>>, <<>>)

Feedback(t) ==
  IF json_loads(t).ok THEN json_loads(t).val ELSE RawFeedback(t)

\* ------------------------------------------------------------------ values
None == "None"

NoPath == 0

NoFile == 0

SecureUrl == "https://res.cloudinary.com/secure_url"

PreviewUrl == "https://res.cloudinary.com/preview.png"

\* resp.text of the generation response: a string, None, or an accessor
\* that raises (no candidate in the response).
RespText(chars) == [kind |-> "text", chars |-> chars]

RespNone == [kind |-> "none", chars |-> <<>>]

RespRaises == [kind |-> "raises", chars |-> <<>>]

NoResp == [kind |-> "unset", chars |-> <<>>]

NoResponse ==
  [status |-> 0, detail |-> "", hasBody |-> FALSE,
   feedback |-> NoValue, pdf_url |-> None, preview_url |-> None]

\* raise HTTPException(status_code, detail): FastAPI answers {"detail": ...}.
HTTPException(status, detail) ==
  [status |-> status, detail |-> detail, hasBody |-> FALSE,
   feedback |-> NoValue, pdf_url |-> None, preview_url |-> None]

\* Any other exception leaving the handler: the framework's 500.
ServerError == HTTPException(500, "Internal Server Error")

\* The dict returned at line 186, sent with status 200.
AnalysisResult(fb, pdf, prev) ==
  [status |-> 200, detail |-> "", hasBody |-> TRUE,
   feedback |-> fb, pdf_url |-> pdf, preview_url |-> prev]

\* ------------------------------------------------------------------ inputs
ContentTypes == allowed \cup {"text/plain", None}

Sizes == {0, MAX_FILE_SIZE, MAX_FILE_SIZE + 1, 15 * 1024 * 1024}

Texts ==
  { <<>>,
    <<" ">>,
    <<"{", "}">>,
    <<"{", Quote, "a", Quote, ":", "7", "2", "}">>,
    <<" ", "{", Quote, "a", Quote, ":", "1", ",", Quote, "a", Quote, ":", "2", "}", " ">>,
    <<"{", Quote, "r", "a", "w", Quote, ":", Quote, "x", Quote, "}">>,
    <<"{", Quote, "a", Quote, ":", "1">>,
    <<"{", "}", "x">>,
    <<"[", "1", ",", "{", "}", "]">>,
    <<"[", "1", ",", "]">>,
    <<"7", "2">>,
    <<"0", "1">>,
    <<Quote, "s", Quote>>,
    <<"n", "u", "l", "l">>,
    <<"t", "r", "u", "e">>,
    <<"x">> }

Resps == {RespText(t) : t \in Texts} \cup {RespNone, RespRaises}

\* The inputs of the multi-process specification: one of each outcome.
ContentTypesW == {"application/pdf", "text/plain"}

SizesW == {MAX_FILE_SIZE, MAX_FILE_SIZE + 1}

RespsW == {RespText(<<"{", "}">>)}

\* ------------------------------------------------------------------- state
VARIABLES
  pc,            \* position of each request in analyze_resume
  proc,          \* the server process (event loop) that runs each request
  content_type,  \* file.content_type
  size,          \* len(contents), known once the read returns
  temp_path,     \* tmp.name, bound to temp_path at line 81
  pdf_url,
  preview_url,
  resp,          \* the generation response (its .text)
  text,
  feedback,
  exc,           \* the exception travelling through the finally block
  response,      \* what the caller receives
  calls,         \* the collaborator calls made so far, in order
  fs             \* the temporary directory: path -> request that created
                 \* the file now at that path, or NoFile

vars ==
  << pc, proc, content_type, size, temp_path, pdf_url, preview_url, resp,
     text, feedback, exc, response, calls, fs >>

locals == << content_type, size, temp_path, pdf_url, preview_url, resp,
             text, feedback, exc, calls >>

\* The handler is a coroutine with one await (line 73): a process runs one
\* request at a time from the call to that await and from there to the
\* response, and switches requests only there.
Running == {"validate", "mktemp", "write", "cloud_upload", "cloud_url",
            "genai_upload", "generate", "parse", "finally", "done"}

LoopFree(r) ==
  \A q \in Requests \ {r} : proc[q] = proc[r] => pc[q] \notin Running

InitRequests ==
  /\ pc = [r \in Requests |-> "idle"]
  /\ content_type = [r \in Requests |-> None]
  /\ size = [r \in Requests |-> 0]
  /\ temp_path = [r \in Requests |-> NoPath]
  /\ pdf_url = [r \in Requests |-> None]
  /\ preview_url = [r \in Requests |-> None]
  /\ resp = [r \in Requests |-> NoResp]
  /\ text = [r \in Requests |-> <<>>]
  /\ feedback = [r \in Requests |-> NoValue]
  /\ exc = [r \in Requests |-> "none"]
  /\ response = [r \in Requests |-> NoResponse]
  /\ calls = [r \in Requests |-> <<>>]
  /\ fs = [p \in Paths |-> NoFile]

\* One server process (uvicorn's default).
Init == InitRequests /\ proc = [r \in Requests |-> 1]

\* One server process per request (several workers).
InitWorkers == InitRequests /\ proc = [r \in Requests |-> r]

Call(fn, outcome) == [fn |-> fn, outcome |-> outcome]

\* ----------------------------------------------------------------- actions
\* The framework calls analyze_resume(file, ...) for an incoming request.
ArriveFrom(r, cts) ==
  /\ pc[r] = "idle"
  /\ LoopFree(r)
  /\ \E ct \in cts : content_type' = [content_type EXCEPT ![r] = ct]
  /\ pc' = [pc EXCEPT ![r] = "validate"]
  /\ UNCHANGED << proc, size, temp_path, pdf_url, preview_url, resp, text,
                  feedback, exc, response, calls, fs >>

Arrive(r) == ArriveFrom(r, ContentTypes)

ArriveW(r) == ArriveFrom(r, ContentTypesW)

\* Lines 64-70.
CheckContentType(r) ==
  /\ pc[r] = "validate"
  /\ IF content_type[r] \notin allowed
       THEN /\ response' = [response EXCEPT ![r] =
                   HTTPException(415, "Only PDF/DOC/DOCX are supported")]
            /\ pc' = [pc EXCEPT ![r] = "done"]
       ELSE /\ pc' = [pc EXCEPT ![r] = "read"]
            /\ UNCHANGED response
  /\ UNCHANGED << proc, locals, fs >>

TooLargeWrongUnit(n) == n > 100 * 1024 * 1024

TooLarge(n) == n > MAX_FILE_SIZE

\* Lines 73-75: the await returns the contents (n bytes), then the size
\* check.
ReadFrom(r, sizes) ==
  /\ pc[r] = "read"
  /\ LoopFree(r)
  /\ \E n \in sizes :
       /\ size' = [size EXCEPT ![r] = n]
       /\ IF TooLarge(n)
            THEN /\ response' = [response EXCEPT ![r] =
                        HTTPException(413, "File too large")]
                 /\ pc' = [pc EXCEPT ![r] = "done"]
            ELSE /\ pc' = [pc EXCEPT ![r] = "mktemp"]
                 /\ UNCHANGED response
  /\ UNCHANGED << proc, content_type, temp_path, pdf_url, preview_url, resp,
                  text, feedback, exc, calls, fs >>

ReadContents(r) == ReadFrom(r, Sizes)

ReadContentsW(r) == ReadFrom(r, SizesW)

\* The names NamedTemporaryFile may take: it opens with O_CREAT | O_EXCL,
\* so never a name that exists.
AnyPath(f) == Paths

FreshPaths(f) == {p \in Paths : f[p] = NoFile}

\* Line 79: the file is created (delete=False); FileExistsError when no
\* name is left.  This is before the try of line 83.
CreateTempFile(r) ==
  /\ pc[r] = "mktemp"
  /\ IF FreshPaths(fs) = {}
       THEN /\ exc' = [exc EXCEPT ![r] = "FileExistsError"]
            /\ response' = [response EXCEPT ![r] = ServerError]
            /\ pc' = [pc EXCEPT ![r] = "done"]
            /\ UNCHANGED << temp_path, fs >>
       ELSE /\ \E p \in FreshPaths(fs) :
                 /\ fs' = [fs EXCEPT ![p] = r]
                 /\ temp_path' = [temp_path EXCEPT ![r] = p]
            /\ pc' = [pc EXCEPT ![r] = "write"]
            /\ UNCHANGED << exc, response >>
  /\ UNCHANGED << proc, content_type, size, pdf_url, preview_url, resp,
                  text, feedback, calls >>

\* Lines 80-81: tmp.write(contents) and the close at the end of the with
\* block; an OSError (disk full) leaves the handler before the try.
WriteContents(r) ==
  /\ pc[r] = "write"
  /\ \/ /\ pc' = [pc EXCEPT ![r] = "cloud_upload"]
        /\ UNCHANGED << exc, response >>
     \/ /\ exc' = [exc EXCEPT ![r] = "OSError"]
        /\ response' = [response EXCEPT ![r] = ServerError]
        /\ pc' = [pc EXCEPT ![r] = "done"]
  /\ UNCHANGED << proc, content_type, size, temp_path, pdf_url, preview_url,
                  resp, text, feedback, calls, fs >>

\* Lines 103-106: what the except clause leaves in pdf_url and preview_url.
ExceptKeepsPdfUrl(pdf, prev) == [pdf_url |-> pdf, preview_url |-> None]

ExceptCloudinary(pdf, prev) == [pdf_url |-> None, preview_url |-> None]

\* Where the handler continues after the except clause of line 103.
AfterCloudinaryRaise == "genai_upload"

\* Where an exception of the Gemini calls (lines 111, 173) goes: nothing
\* catches it before the finally of line 188.
RetryGemini == "genai_upload"

AfterGeminiRaise == "finally"

\* Lines 87-93: cloudinary.uploader.upload and the two .get of its result.
CloudinaryUpload(r) ==
  /\ pc[r] = "cloud_upload"
  /\ \/ /\ calls' = [calls EXCEPT ![r] = Append(@, Call("cloudinary.upload", "return"))]
        /\ pdf_url' = [pdf_url EXCEPT ![r] = SecureUrl]
        /\ pc' = [pc EXCEPT ![r] = "cloud_url"]
        /\ UNCHANGED preview_url
     \/ /\ calls' = [calls EXCEPT ![r] = Append(@, Call("cloudinary.upload", "raise"))]
        /\ pdf_url' = [pdf_url EXCEPT ![r] =
               ExceptCloudinary(pdf_url[r], preview_url[r]).pdf_url]
        /\ preview_url' = [preview_url EXCEPT ![r] =
               ExceptCloudinary(pdf_url[r], preview_url[r]).preview_url]
        /\ pc' = [pc EXCEPT ![r] = AfterCloudinaryRaise]
  /\ UNCHANGED << proc, content_type, size, temp_path, resp, text, feedback,
                  exc, response, fs >>

\* Lines 96-102: cloudinary_url builds the preview URL, or raises into the
\* same except clause.
CloudinaryUrl(r) ==
  /\ pc[r] = "cloud_url"
  /\ \/ /\ calls' = [calls EXCEPT ![r] = Append(@, Call("cloudinary_url", "return"))]
        /\ preview_url' = [preview_url EXCEPT ![r] = PreviewUrl]
        /\ pc' = [pc EXCEPT ![r] = "genai_upload"]
        /\ UNCHANGED pdf_url
     \/ /\ calls' = [calls EXCEPT ![r] = Append(@, Call("cloudinary_url", "raise"))]
        /\ pdf_url' = [pdf_url EXCEPT ![r] =
               ExceptCloudinary(pdf_url[r], preview_url[r]).pdf_url]
        /\ preview_url' = [preview_url EXCEPT ![r] =
               ExceptCloudinary(pdf_url[r], preview_url[r]).preview_url]
        /\ pc' = [pc EXCEPT ![r] = AfterCloudinaryRaise]
  /\ UNCHANGED << proc, content_type, size, temp_path, resp, text, feedback,
                  exc, response, fs >>

\* Line 111: genai.upload_file.
GenaiUpload(r) ==
  /\ pc[r] = "genai_upload"
  /\ \/ /\ calls' = [calls EXCEPT ![r] = Append(@, Call("genai.upload_file", "return"))]
        /\ pc' = [pc EXCEPT ![r] = "generate"]
        /\ UNCHANGED exc
     \/ /\ calls' = [calls EXCEPT ![r] = Append(@, Call("genai.upload_file", "raise"))]
        /\ exc' = [exc EXCEPT ![r] = "GeminiError"]
        /\ pc' = [pc EXCEPT ![r] = AfterGeminiRaise]
  /\ UNCHANGED << proc, content_type, size, temp_path, pdf_url, preview_url,
                  resp, text, feedback, response, fs >>

\* Lines 172-176: model.generate_content.
GenerateFrom(r, resps) ==
  /\ pc[r] = "generate"
  /\ \/ /\ calls' = [calls EXCEPT ![r] = Append(@, Call("generate_content", "return"))]
        /\ \E a \in resps : resp' = [resp EXCEPT ![r] = a]
        /\ pc' = [pc EXCEPT ![r] = "parse"]
        /\ UNCHANGED exc
     \/ /\ calls' = [calls EXCEPT ![r] = Append(@, Call("generate_content", "raise"))]
        /\ exc' = [exc EXCEPT ![r] = "GeminiError"]
        /\ pc' = [pc EXCEPT ![r] = AfterGeminiRaise]
        /\ UNCHANGED resp
  /\ UNCHANGED << proc, content_type, size, temp_path, pdf_url, preview_url,
                  text, feedback, response, fs >>

GenerateContent(r) == GenerateFrom(r, Resps)

GenerateContentW(r) == GenerateFrom(r, RespsW)

\* Line 178: resp.text or "".
TextOf(a) == IF a.kind = "text" THEN a.chars ELSE <<>>

\* Lines 178-186: the text, the feedback and the returned dict; the return
\* value waits for the finally block.
ParseAndReturn(r) ==
  /\ pc[r] = "parse"
  /\ IF resp[r].kind = "raises"
       THEN /\ exc' = [exc EXCEPT ![r] = "ValueError"]
            /\ UNCHANGED << text, feedback, response >>
       ELSE /\ text' = [text EXCEPT ![r] = TextOf(resp[r])]
            /\ feedback' = [feedback EXCEPT ![r] = Feedback(TextOf(resp[r]))]
            /\ response' = [response EXCEPT ![r] =
                   AnalysisResult(Feedback(TextOf(resp[r])), pdf_url[r], preview_url[r])]
            /\ UNCHANGED exc
  /\ pc' = [pc EXCEPT ![r] = "finally"]
  /\ UNCHANGED << proc, content_type, size, temp_path, pdf_url, preview_url,
                  resp, calls, fs >>

\* What leaves the handler after the finally block: the pending exception
\* (the framework's 500) or the returned dict.
OutcomeFallback(e, ret) ==
  IF e # "none" THEN AnalysisResult(RawFeedback(<<>>), None, None) ELSE ret

Outcome(e, ret) == IF e # "none" THEN ServerError ELSE ret

\* Lines 188-193: os.remove(temp_path); its own exception is swallowed and
\* the file then stays.
Finally(r) ==
  /\ pc[r] = "finally"
  /\ \/ fs' = [fs EXCEPT ![temp_path[r]] = NoFile]
     \/ UNCHANGED fs
  /\ response' = [response EXCEPT ![r] = Outcome(exc[r], response[r])]
  /\ pc' = [pc EXCEPT ![r] = "done"]
  /\ UNCHANGED << proc, locals >>

\* The response is sent and everything request-scoped is dropped.
Respond(r) ==
  /\ pc[r] = "done"
  /\ pc' = [pc EXCEPT ![r] = "closed"]
  /\ content_type' = [content_type EXCEPT ![r] = None]
  /\ size' = [size EXCEPT ![r] = 0]
  /\ temp_path' = [temp_path EXCEPT ![r] = NoPath]
  /\ pdf_url' = [pdf_url EXCEPT ![r] = None]
  /\ preview_url' = [preview_url EXCEPT ![r] = None]
  /\ resp' = [resp EXCEPT ![r] = NoResp]
  /\ text' = [text EXCEPT ![r] = <<>>]
  /\ feedback' = [feedback EXCEPT ![r] = NoValue]
  /\ exc' = [exc EXCEPT ![r] = "none"]
  /\ response' = [response EXCEPT ![r] = NoResponse]
  /\ calls' = [calls EXCEPT ![r] = <<>>]
  /\ UNCHANGED << proc, fs >>

Next ==
  \/ \E r \in Requests : Arrive(r)
  \/ \E r \in Requests : CheckContentType(r)
  \/ \E r \in Requests : ReadContents(r)
  \/ \E r \in Requests : CreateTempFile(r)
  \/ \E r \in Requests : WriteContents(r)
  \/ \E r \in Requests : CloudinaryUpload(r)
  \/ \E r \in Requests : CloudinaryUrl(r)
  \/ \E r \in Requests : GenaiUpload(r)
  \/ \E r \in Requests : GenerateContent(r)
  \/ \E r \in Requests : ParseAndReturn(r)
  \/ \E r \in Requests : Finally(r)
  \/ \E r \in Requests : Respond(r)

NextWorkers ==
  \/ \E r \in Requests : ArriveW(r)
  \/ \E r \in Requests : CheckContentType(r)
  \/ \E r \in Requests : ReadContentsW(r)
  \/ \E r \in Requests : CreateTempFile(r)
  \/ \E r \in Requests : WriteContents(r)
  \/ \E r \in Requests : CloudinaryUpload(r)
  \/ \E r \in Requests : CloudinaryUrl(r)
  \/ \E r \in Requests : GenaiUpload(r)
  \/ \E r \in Requests : GenerateContentW(r)
  \/ \E r \in Requests : ParseAndReturn(r)
  \/ \E r \in Requests : Finally(r)
  \/ \E r \in Requests : Respond(r)

\* Requests served by one process.
Spec == Init /\ [][Next]_vars

\* Requests served by separate processes sharing the temporary directory.
SpecWorkers == InitWorkers /\ [][NextWorkers]_vars

\* ------------------------------------------------------------- properties
\* The vocabulary of the properties, stated apart from the handler's own
\* definitions.
AllowSet ==
  { "application/pdf",
    "application/msword",
    "application/vnd.openxmlformats-officedocument.wordprocessingml.document" }

Started(r) == pc[r] \notin {"idle", "closed"}

Made(r, fn, outcome) ==
  \E i \in 1..Len(calls[r]) : calls[r][i] = [fn |-> fn, outcome |-> outcome]

Called(r, fn) == \E i \in 1..Len(calls[r]) : calls[r][i].fn = fn

OwnsFile(r) == \E p \in Paths : fs[p] = r

MediaRaised(r) ==
  Made(r, "cloudinary.upload", "raise") \/ Made(r, "cloudinary_url", "raise")

AIRaised(r) ==
  \/ Made(r, "genai.upload_file", "raise")
  \/ Made(r, "generate_content", "raise")
  \/ resp[r].kind = "raises"

AIReturned(r) ==
  /\ Made(r, "genai.upload_file", "return")
  /\ Made(r, "generate_content", "return")
  /\ resp[r].kind \in {"text", "none"}

\* The text of a returned response, a missing one read as the empty text.
ReturnedText(r) == IF resp[r].kind = "text" THEN resp[r].chars ELSE <<>>

RawObject(t) ==
  [kind |-> "object", lit |-> <<>>,
   items |-> << [kind |-> "pair", lit |-> <<"r", "a", "w">>,
                 items |-> << [kind |-> "string", lit |-> t, items |-> <<>>] >>] >>]

\* C1: a request whose content type is outside the allow-set goes no further
\* than the check; it ends with 415 "Only PDF/DOC/DOCX are supported", creates
\* no temporary file and calls neither collaborator.
UnsupportedTypeIs415 ==
  \A r \in Requests :
    (Started(r) /\ content_type[r] \notin AllowSet) =>
      /\ pc[r] \in {"validate", "done"}
      /\ pc[r] = "done" =>
           /\ response[r].status = 415
           /\ response[r].detail = "Only PDF/DOC/DOCX are supported"
           /\ ~response[r].hasBody
      /\ temp_path[r] = NoPath
      /\ ~OwnsFile(r)
      /\ calls[r] = <<>>

UnsupportedTypeRejected ==
  \E r \in Requests :
    /\ pc[r] = "done"
    /\ content_type[r] = "text/plain"
    /\ response[r].status = 415

\* C2: a request of an allowed content type whose contents are longer than
\* 10 MiB ends with 413 "File too large", creates no temporary file and calls
\* neither collaborator.
OversizeIs413 ==
  \A r \in Requests :
    (Started(r) /\ content_type[r] \in AllowSet /\ size[r] > 10 * 1024 * 1024) =>
      /\ pc[r] = "done"
      /\ response[r].status = 413
      /\ response[r].detail = "File too large"
      /\ ~response[r].hasBody
      /\ temp_path[r] = NoPath
      /\ ~OwnsFile(r)
      /\ calls[r] = <<>>

OversizeRejected ==
  \E r \in Requests :
    /\ pc[r] = "done"
    /\ content_type[r] = "application/pdf"
    /\ size[r] = 10 * 1024 * 1024 + 1
    /\ response[r].status = 413

\* C3: once a request that created a temporary file completes, on any exit
\* path, that file is no longer in the filesystem.
TempFileGoneWhenDone ==
  \A r \in Requests :
    (pc[r] = "done" /\ temp_path[r] # NoPath) => fs[temp_path[r]] # r

\* C4: when the upload to the media host or the construction of the preview
\* URL raises, pdf_url and preview_url are both null from then on, the AI
\* collaborator is still called, and if the AI step succeeds the request ends
\* with 200 and both URLs null.
MediaFailureDegradesToNulls ==
  \A r \in Requests :
    MediaRaised(r) =>
      /\ pdf_url[r] = None /\ preview_url[r] = None
      /\ pc[r] \in {"generate", "parse", "finally", "done"} =>
           Called(r, "genai.upload_file")
      /\ (pc[r] = "done" /\ AIReturned(r)) =>
           /\ response[r].status = 200
           /\ response[r].hasBody
           /\ response[r].pdf_url = None
           /\ response[r].preview_url = None

PreviewFailureThenSuccess ==
  \E r \in Requests :
    /\ pc[r] = "done"
    /\ Made(r, "cloudinary.upload", "return")
    /\ Made(r, "cloudinary_url", "raise")
    /\ AIReturned(r)
    /\ response[r].status = 200

\* C5: when the AI step raises (the document upload, the generation, or the
\* read of the generated text), the request ends with a non-2xx status and
\* without a result body, whatever the media-hosting step did.
AIFailureAborts ==
  \A r \in Requests :
    (pc[r] = "done" /\ AIRaised(r)) =>
      /\ response[r].status \notin 200..299
      /\ ~response[r].hasBody
      /\ response[r].feedback = NoValue

GenerationFailedAfterHosting ==
  \E r \in Requests :
    /\ pc[r] = "done"
    /\ Made(r, "generate_content", "raise")
    /\ pdf_url[r] = SecureUrl
    /\ preview_url[r] = PreviewUrl
    /\ response[r].status = 500

\* C6: when the AI collaborator returns a text that is not JSON (an empty or
\* missing text included), the request ends with 200 and feedback is exactly
\* {"raw": text}.
UnparsableTextIsRaw ==
  \A r \in Requests :
    (pc[r] = "done" /\ AIReturned(r) /\ ~json_loads(ReturnedText(r)).ok) =>
      /\ response[r].status = 200
      /\ response[r].hasBody
      /\ response[r].feedback = RawObject(ReturnedText(r))

TruncatedJsonReturned ==
  \E r \in Requests :
    /\ pc[r] = "done"
    /\ resp[r] = RespText(<<"{", Quote, "a", Quote, ":", "1">>)
    /\ response[r].status = 200

\* C7: when the AI collaborator returns a text that is JSON, feedback in the
\* 200 response is the parsed value of that text, whatever the media-hosting
\* step did.
ValidJsonIsRelayed ==
  \A r \in Requests :
    (pc[r] = "done" /\ AIReturned(r) /\ json_loads(ReturnedText(r)).ok) =>
      /\ response[r].status = 200
      /\ response[r].hasBody
      /\ response[r].feedback = json_loads(ReturnedText(r)).val

ScoreObjectReturned ==
  \E r \in Requests :
    /\ pc[r] = "done"
    /\ resp[r] = RespText(<<"{", Quote, "a", Quote, ":", "7", "2", "}">>)
    /\ MediaRaised(r)
    /\ response[r].feedback.kind = "object"

\* C8: within a request the collaborator calls happen in the order media
\* upload, preview URL, AI document upload, generation, each at most once,
\* and nothing is called after an AI call that raised.
CallRank(fn) ==
  CASE fn = "cloudinary.upload" -> 1
    [] fn = "cloudinary_url" -> 2
    [] fn = "genai.upload_file" -> 3
    [] fn = "generate_content" -> 4

CallsOrderedNoRetry ==
  \A r \in Requests :
    /\ \A i, j \in 1..Len(calls[r]) :
         i < j => CallRank(calls[r][i].fn) < CallRank(calls[r][j].fn)
    /\ \A i \in 1..Len(calls[r]) :
         (CallRank(calls[r][i].fn) >= 3 /\ calls[r][i].outcome = "raise") =>
           i = Len(calls[r])

FailuresNotRetried ==
  \E r \in Requests :
    /\ pc[r] = "done"
    /\ calls[r] = << [fn |-> "cloudinary.upload", outcome |-> "raise"],
                     [fn |-> "genai.upload_file", outcome |-> "return"],
                     [fn |-> "generate_content", outcome |-> "raise"] >>

\* C9: a request that has created its temporary file and has not yet run its
\* cleanup still finds its own file at its path, and no two such requests
\* have the same path, under any interleaving of the requests.
Holding(r) ==
  pc[r] \in {"write", "cloud_upload", "cloud_url", "genai_upload",
             "generate", "parse", "finally"}

TempFilesDisjoint ==
  /\ \A r \in Requests :
       Holding(r) => (temp_path[r] \in Paths /\ fs[temp_path[r]] = r)
  /\ \A r, q \in Requests :
       (r # q /\ Holding(r) /\ Holding(q)) => temp_path[r] # temp_path[q]

CleanupBesideRunningRequest ==
  \E r, q \in Requests :
    /\ pc[r] = "done"
    /\ temp_path[r] # NoPath
    /\ fs[temp_path[r]] = NoFile
    /\ pc[q] \in {"cloud_url", "genai_upload", "generate"}

\* C10 (as stated): in every 200 response feedback is a JSON object.
FeedbackIsObject ==
  \A r \in Requests :
    (pc[r] = "done" /\ response[r].status = 200) =>
      response[r].feedback.kind = "object"

\* C10 (amended): in every 200 response feedback is the parsed value of the
\* returned text, of whatever JSON type that text is, or, when the text is
\* not JSON, an object with the single key "raw" holding a string.
FeedbackIsJsonValueOrRaw ==
  \A r \in Requests :
    (pc[r] = "done" /\ response[r].status = 200) =>
      LET fb == response[r].feedback
          parsed == json_loads(ReturnedText(r))
      IN /\ fb.kind \in {"object", "array", "string", "number", "true",
                         "false", "null"}
         /\ parsed.ok => fb.kind = parsed.val.kind
         /\ ~parsed.ok =>
              /\ fb.kind = "object"
              /\ Len(fb.items) = 1
              /\ fb.items[1].lit = <<"r", "a", "w">>
              /\ fb.items[1].items[1].kind = "string"

ArrayFeedbackReturned ==
  \E r \in Requests :
    /\ pc[r] = "done"
    /\ response[r].status = 200
    /\ response[r].feedback.kind = "array"

====
